---- MODULE Spec2Model ----
(***************************************************************************)
(* Model of the Skylark AI business-intelligence assistant:                *)
(*   src/insights_agent.py  keyword intent extraction, metric calculation  *)
(*                          and the response priority ladder               *)
(*   src/app.py             clarification gate, the two turn handlers      *)
(*                          (sample-question click, typed chat input) and  *)
(*                          the leadership report                          *)
(*   src/data_cleaning.py   the cleaning pipeline for work orders          *)
(* Text is modelled by TLA+ strings; substring tests, lower-casing and     *)
(* token counting are computed character by character as Python does.      *)
(* Floating-point metrics are modelled by exact rationals [n, d].          *)
(***************************************************************************)
EXTENDS Integers, Sequences, FiniteSets, TLC

(***************************************************************************)
(* Python string primitives                                                *)
(***************************************************************************)
UpperAZ == "ABCDEFGHIJKLMNOPQRSTUVWXYZ"
LowerAZ == "abcdefghijklmnopqrstuvwxyz"

\* one character of str.lower()
LowerChar(c) ==
    IF \E i \in 1..Len(UpperAZ) : SubSeq(UpperAZ, i, i) = c
    THEN LET i == CHOOSE j \in 1..Len(UpperAZ) : SubSeq(UpperAZ, j, j) = c
         IN  SubSeq(LowerAZ, i, i)
    ELSE c

RECURSIVE Lower(_)
\* str.lower()
Lower(s) ==
    IF Len(s) = 0 THEN ""
    ELSE LowerChar(SubSeq(s, 1, 1)) \o Lower(SubSeq(s, 2, Len(s)))

\* Python's `k in s` on strings (the empty string is in every string)
Contains(s, k) ==
    \E i \in 1..(Len(s) - Len(k) + 1) : SubSeq(s, i, i + Len(k) - 1) = k

\* any(word in s for word in words), words a sequence of strings
ContainsAny(s, words) ==
    \E j \in 1..Len(words) : Contains(s, words[j])

IsSpace(c) == c = " "

\* len(s.split()): the number of maximal runs of non-whitespace characters
TokenCount(s) ==
    Cardinality({i \in 1..Len(s) :
        /\ ~IsSpace(SubSeq(s, i, i))
        /\ (i = 1 \/ IsSpace(SubSeq(s, i - 1, i - 1)))})

RECURSIVE Strip(_)
\* str.strip()
Strip(s) ==
    IF Len(s) = 0 THEN ""
    ELSE IF IsSpace(SubSeq(s, 1, 1)) THEN Strip(SubSeq(s, 2, Len(s)))
    ELSE IF IsSpace(SubSeq(s, Len(s), Len(s))) THEN Strip(SubSeq(s, 1, Len(s) - 1))
    ELSE s

\* Python's None, as a cell value or a context value
None == "<None>"
\* a key that is not in the context dictionary
Absent == "<absent>"

(***************************************************************************)
(* extract_keywords: keyword table and intent detection                    *)
(***************************************************************************)
Categories ==
    <<"conversion", "revenue", "pipeline", "sector",
      "performance", "collection", "trends", "leadership">>

keywords ==
    [conversion  |-> <<"convert", "conversion", "converting", "effectively",
                       "efficiency", "win rate", "close rate">>,
     revenue     |-> <<"revenue", "billed", "collected", "realized", "income",
                       "earnings", "money made">>,
     pipeline    |-> <<"pipeline", "deals", "opportunities", "forecast", "upcoming">>,
     sector      |-> <<"sector", "industry", "vertical", "segment", "domain", "category">>,
     performance |-> <<"performance", "overview", "summary", "health", "status",
                       "how are we doing">>,
     collection  |-> <<"collection", "collect", "receivable", "outstanding",
                       "payment", "unpaid", "pending">>,
     trends      |-> <<"trend", "growth", "decline", "change", "compare",
                       "over time", "quarter", "monthly">>,
     leadership  |-> <<"leadership", "executive", "founder", "ceo", "report",
                       "board", "investor">>]

\* the keywords tested against the query as typed, not lower-cased
extract_keywords_CaseSensitive(query) ==
    SelectSeq(Categories, LAMBDA c : ContainsAny(query, keywords[c]))

\* the list `detected`, in the order of the keyword dictionary
extract_keywords(query) ==
    LET q == Lower(query)
    IN  SelectSeq(Categories, LAMBDA c : ContainsAny(q, keywords[c]))

\* `x in lst` for a list
InList(x, lst) == \E i \in 1..Len(lst) : lst[i] = x

(***************************************************************************)
(* Exact rationals [n, d], d > 0, standing for Python floats               *)
(***************************************************************************)
Abs(i) == IF i < 0 THEN -i ELSE i

RECURSIVE GCD(_, _)
GCD(a, b) == IF b = 0 THEN a ELSE GCD(b, a % b)

\* the rational n/d in lowest terms (d # 0)
Rat(n, d) ==
    LET g == GCD(Abs(n), Abs(d))
        s == IF d < 0 THEN -1 ELSE 1
    IN  [n |-> (s * n) \div g, d |-> (s * d) \div g]

RatInt(i) == [n |-> i, d |-> 1]
RatAdd(a, b) == Rat(a.n * b.d + b.n * a.d, a.d * b.d)
RatMul(a, b) == Rat(a.n * b.n, a.d * b.d)
RatLe(a, b) == a.n * b.d <= b.n * a.d
RatLt(a, b) == a.n * b.d < b.n * a.d
\* Python's min(a, b): b only when b < a
RatMin(a, b) == IF RatLt(b, a) THEN b ELSE a

(***************************************************************************)
(* Tables (pandas DataFrames): column labels and rows of text cells        *)
(***************************************************************************)
EmptyFrame == [cols |-> <<>>, rows |-> <<>>]

\* `name in df.columns`
HasCol(df, name) == InList(name, df.cols)

\* df[name]: the cells of a column, top to bottom
Column(df, name) ==
    LET j == CHOOSE k \in 1..Len(df.cols) : df.cols[k] = name
    IN  [i \in 1..Len(df.rows) |-> df.rows[i][j]]

\* df.empty
IsEmpty(df) == Len(df.rows) = 0 \/ Len(df.cols) = 0

\* clean_dataframe: str(col).strip().lower() on every column label
clean_dataframe(df) ==
    [df EXCEPT !.cols = [i \in 1..Len(df.cols) |-> Lower(Strip(df.cols[i]))]]

Digits == "0123456789"
IsDigit(c) == \E i \in 1..Len(Digits) : SubSeq(Digits, i, i) = c
DigitVal(c) == (CHOOSE i \in 1..Len(Digits) : SubSeq(Digits, i, i) = c) - 1

RECURSIVE RemoveChars(_, _)
\* str.replace of every character of the class `chars` by nothing
RemoveChars(s, chars) ==
    IF Len(s) = 0 THEN ""
    ELSE (IF Contains(chars, SubSeq(s, 1, 1)) THEN "" ELSE SubSeq(s, 1, 1))
         \o RemoveChars(SubSeq(s, 2, Len(s)), chars)

RECURSIVE DigitsValue(_)
DigitsValue(s) ==
    IF Len(s) = 0 THEN 0
    ELSE 10 * DigitsValue(SubSeq(s, 1, Len(s) - 1)) + DigitVal(SubSeq(s, Len(s), Len(s)))

AllDigits(s) == Len(s) > 0 /\ \A i \in 1..Len(s) : IsDigit(SubSeq(s, i, i))

\* pd.to_numeric(errors="coerce").fillna(0) on one cell of integer text:
\* an optionally signed run of digits parses, anything else is NaN, then 0
ToNumeric(s) ==
    IF AllDigits(s) THEN DigitsValue(s)
    ELSE IF Len(s) > 1 /\ SubSeq(s, 1, 1) = "-" /\ AllDigits(SubSeq(s, 2, Len(s)))
         THEN -DigitsValue(SubSeq(s, 2, Len(s)))
    ELSE 0

\* Characters outside ASCII are written with one ASCII stand-in each:
\*   "#" U+20B9 (the rupee sign)
\*   "!" U+201A    "*" U+00C7    "~" U+03C0
\*   "@" U+00E2    "^" U+00B9
RupeeSign == "#"

\* the character class of safe_numeric's regex: U+201A, U+00C7, U+03C0, the
\* dollar sign and the comma; the rupee sign is not in it
StripClass == "!*~$,"

\* safe_numeric on one cell; None becomes the text "None" under astype(str)
safe_numeric_cell(c) ==
    ToNumeric(RemoveChars(IF c = None THEN "None" ELSE c, StripClass))

\* safe_numeric on a series
safe_numeric(series) == [i \in 1..Len(series) |-> safe_numeric_cell(series[i])]

RECURSIVE SeqSum(_)
\* series.sum()
SeqSum(sq) == IF Len(sq) = 0 THEN 0 ELSE sq[1] + SeqSum(Tail(sq))

\* dict.get(key, 0)
Get0(d, key) == IF key \in DOMAIN d THEN d[key] ELSE 0

\* series.value_counts().to_dict(): counts of the non-null values
value_counts(series) ==
    LET vals == {series[i] : i \in 1..Len(series)} \ {None}
    IN  [v \in vals |-> Cardinality({i \in 1..Len(series) : series[i] = v})]

(***************************************************************************)
(* calculate_conversion_metrics                                            *)
(***************************************************************************)
WinRate(won_deals, lost_deals) ==
    IF won_deals + lost_deals > 0
    THEN Rat(won_deals * 100, won_deals + lost_deals) ELSE RatInt(0)

ConversionRate(won_deals, total_deals) ==
    IF total_deals > 0 THEN Rat(won_deals * 100, total_deals) ELSE RatInt(0)

\* the guard written as "pipeline is not 0"
RealizationRate_NonZeroGuard(total_revenue, total_pipeline) ==
    IF total_pipeline # 0 THEN Rat(total_revenue * 100, total_pipeline) ELSE RatInt(0)

RealizationRate(total_revenue, total_pipeline) ==
    IF total_pipeline > 0 THEN Rat(total_revenue * 100, total_pipeline) ELSE RatInt(0)

\* the clamp of the realization rate applied after weighting instead of before
HealthScore_ClampAfterWeighting(total_deals, win_rate, realization_rate) ==
    LET health_score ==
            IF total_deals > 0
            THEN RatAdd(RatMul(win_rate, Rat(4, 10)),
                        RatMin(RatMul(realization_rate, Rat(6, 10)), RatInt(100)))
            ELSE RatInt(0)
    IN  RatMin(health_score, RatInt(100))

\* lines 78-83: the weighted score, realization clamped before weighting,
\* the sum clamped afterwards
HealthScore(total_deals, win_rate, realization_rate) ==
    LET health_score ==
            IF total_deals > 0
            THEN RatAdd(RatMul(win_rate, Rat(4, 10)),
                        RatMul(RatMin(realization_rate, RatInt(100)), Rat(6, 10)))
            ELSE RatInt(0)
    IN  RatMin(health_score, RatInt(100))

calculate_conversion_metrics(work_df, deals_df, revenue_col, deal_value_col, deal_status_col) ==
    LET total_deals == IF ~IsEmpty(deals_df) THEN Len(deals_df.rows) ELSE 0
        hasStatus == HasCol(deals_df, deal_status_col)
        status_counts ==
            IF hasStatus THEN value_counts(Column(deals_df, deal_status_col))
            ELSE [v \in {} |-> 0]
        won_deals ==
            IF hasStatus
            THEN Get0(status_counts, "Won") + Get0(status_counts, "won")
                 + Get0(status_counts, "Closed Won")
            ELSE 0
        lost_deals ==
            IF hasStatus
            THEN Get0(status_counts, "Lost") + Get0(status_counts, "lost")
                 + Get0(status_counts, "Closed Lost")
            ELSE 0
        active_deals == IF hasStatus THEN total_deals - won_deals - lost_deals ELSE 0
        total_pipeline ==
            IF HasCol(deals_df, deal_value_col)
            THEN SeqSum(safe_numeric(Column(deals_df, deal_value_col))) ELSE 0
        total_revenue ==
            IF HasCol(work_df, revenue_col)
            THEN SeqSum(safe_numeric(Column(work_df, revenue_col))) ELSE 0
        win_rate == WinRate(won_deals, lost_deals)
        realization_rate == RealizationRate(total_revenue, total_pipeline)
    IN  [total_deals      |-> total_deals,
         won_deals        |-> won_deals,
         lost_deals       |-> lost_deals,
         active_deals     |-> active_deals,
         win_rate         |-> win_rate,
         conversion_rate  |-> ConversionRate(won_deals, total_deals),
         total_pipeline   |-> total_pipeline,
         total_revenue    |-> total_revenue,
         realization_rate |-> realization_rate,
         status_counts    |-> status_counts,
         health_score     |-> HealthScore(total_deals, win_rate, realization_rate)]

(***************************************************************************)
(* analyze_collections                                                     *)
(***************************************************************************)
billed_col == "billed value in rupees (incl of gst.) (masked)"
collected_col == "collected amount in rupees (incl of gst.) (masked)"
receivable_col == "amount receivable (masked)"

\* the dictionary `analysis`: empty when the billed column is absent
analyze_collections(work_df) ==
    IF HasCol(work_df, billed_col)
    THEN LET total_billed == SeqSum(safe_numeric(Column(work_df, billed_col)))
             hasCollected == HasCol(work_df, collected_col)
             total_collected ==
                 IF hasCollected
                 THEN SeqSum(safe_numeric(Column(work_df, collected_col))) ELSE 0
             collection_rate ==
                 IF hasCollected /\ total_billed > 0
                 THEN Rat(total_collected * 100, total_billed) ELSE RatInt(0)
             receivables ==
                 IF HasCol(work_df, receivable_col)
                 THEN SeqSum(safe_numeric(Column(work_df, receivable_col)))
                 ELSE total_billed - total_collected
         IN  [total_billed    |-> total_billed,
              total_collected |-> total_collected,
              collection_rate |-> collection_rate,
              receivables     |-> receivables]
    ELSE [k \in {} |-> 0]

(***************************************************************************)
(* sector_analysis                                                         *)
(***************************************************************************)
\* the characters of the cell alphabet in code-point order
AsciiOrder ==
    " $&'(),-./0123456789?ABCDEFGHIJKLMNOPQRSTUVWXYZ_abcdefghijklmnopqrstuvwxyz"

Ord(c) == CHOOSE i \in 1..Len(AsciiOrder) : SubSeq(AsciiOrder, i, i) = c

RECURSIVE StrLt(_, _)
\* Python's a < b on strings
StrLt(a, b) ==
    IF Len(b) = 0 THEN FALSE
    ELSE IF Len(a) = 0 THEN TRUE
    ELSE IF SubSeq(a, 1, 1) = SubSeq(b, 1, 1)
         THEN StrLt(SubSeq(a, 2, Len(a)), SubSeq(b, 2, Len(b)))
    ELSE Ord(SubSeq(a, 1, 1)) < Ord(SubSeq(b, 1, 1))

RECURSIVE SortedKeys(_)
\* the group keys in ascending order, as groupby(sort=True) yields them
SortedKeys(S) ==
    IF S = {} THEN <<>>
    ELSE LET m == CHOOSE k \in S : \A o \in S \ {k} : StrLt(k, o)
         IN  <<m>> \o SortedKeys(S \ {m})

RECURSIVE InsertDesc(_, _)
\* insert g after every element whose revenue is >= g.revenue
InsertDesc(sorted, g) ==
    IF Len(sorted) = 0 THEN <<g>>
    ELSE IF sorted[1].revenue >= g.revenue
         THEN <<sorted[1]>> \o InsertDesc(Tail(sorted), g)
    ELSE <<g>> \o sorted

\* the groups left in key order, not sorted by revenue
SortDesc_KeyOrder(groups) == groups

RECURSIVE SortDesc(_)
\* sort_values('revenue', ascending=False), equal revenues keep their order
SortDesc(groups) ==
    IF Len(groups) = 0 THEN <<>>
    ELSE InsertDesc(SortDesc(SubSeq(groups, 1, Len(groups) - 1)), groups[Len(groups)])

\* [is_none |-> TRUE] stands for the None result; otherwise the rows of
\* sector_data, one record per sector
sector_analysis(work_df, revenue_col) ==
    IF ~HasCol(work_df, "sector") \/ ~HasCol(work_df, revenue_col)
    THEN [is_none |-> TRUE, rows |-> <<>>]
    ELSE LET sectors == Column(work_df, "sector")
             revenue == safe_numeric(Column(work_df, revenue_col))
             keys == SortedKeys({sectors[i] : i \in 1..Len(sectors)} \ {None})
             group(k) ==
                 LET idx == {i \in 1..Len(sectors) : sectors[i] = k}
                 IN  [sector     |-> k,
                      revenue    |-> SeqSum([i \in 1..Len(sectors) |->
                                        IF sectors[i] = k THEN revenue[i] ELSE 0]),
                      deal_count |-> Cardinality(idx)]
         IN  [is_none |-> FALSE,
              rows |-> SortDesc([j \in 1..Len(keys) |-> group(keys[j])])]

(***************************************************************************)
(* data_cleaning.py: the cleaning pipeline for work orders                 *)
(***************************************************************************)
\* clean_columns: an empty frame is returned as it is, before the labels
\* are stripped and lower-cased
clean_columns(df) ==
    IF IsEmpty(df) THEN df
    ELSE [df EXCEPT !.cols = [i \in 1..Len(df.cols) |-> Lower(Strip(df.cols[i]))]]

\* df[name] = cells
SetColumn(df, name, cells) ==
    LET j == CHOOSE k \in 1..Len(df.cols) : df.cols[k] = name
    IN  [df EXCEPT !.rows = [i \in 1..Len(df.rows) |->
                                [df.rows[i] EXCEPT ![j] = cells[i]]]]

\* the character class of convert_currency's regex: U+00E2, U+201A, U+00B9,
\* the dollar sign and the comma; the rupee sign is not in it
CurrencyClass == "@!^$,"

\* pd.to_numeric(errors="coerce") on one cell of integer text: <<v>> for a
\* parsed value, <<>> for NaN
ToNumericCoerce(s) ==
    IF AllDigits(s) THEN <<DigitsValue(s)>>
    ELSE IF Len(s) > 1 /\ SubSeq(s, 1, 1) = "-" /\ AllDigits(SubSeq(s, 2, Len(s)))
         THEN <<-DigitsValue(SubSeq(s, 2, Len(s)))>>
    ELSE <<>>

\* fillna(0) on one cell
FillNa0(v) == IF Len(v) = 0 THEN 0 ELSE v[1]

\* convert_currency on one cell: astype(str), the two replacements, strip,
\* to_numeric, fillna(0)
convert_currency_cell(c) ==
    FillNa0(ToNumericCoerce(
        Strip(RemoveChars(RemoveChars(IF c = None THEN "None" ELSE c, CurrencyClass), ","))))

convert_currency(df, column_name) ==
    IF HasCol(df, column_name)
    THEN SetColumn(df, column_name,
             [i \in 1..Len(df.rows) |-> convert_currency_cell(Column(df, column_name)[i])])
    ELSE df

\* the missing timestamp
NaT == "<NaT>"

\* a date written as YYYY-MM-DD
IsIsoDate(s) ==
    /\ Len(s) = 10
    /\ \A i \in {1, 2, 3, 4, 6, 7, 9, 10} : IsDigit(SubSeq(s, i, i))
    /\ SubSeq(s, 5, 5) = "-" /\ SubSeq(s, 8, 8) = "-"

\* pd.to_datetime(errors="coerce") on one cell: the timestamp, written as
\* its date text, or NaT
convert_dates_cell(c) == IF c # None /\ IsIsoDate(c) THEN c ELSE NaT

convert_dates(df, column_name) ==
    IF HasCol(df, column_name)
    THEN SetColumn(df, column_name,
             [i \in 1..Len(df.rows) |-> convert_dates_cell(Column(df, column_name)[i])])
    ELSE df

currency_cols ==
    <<"billed value in rupees (incl of gst.) (masked)",
      "collected amount in rupees (incl of gst.) (masked)",
      "amount receivable (masked)">>

date_cols == <<"collection date", "actual billing month", "created date">>

\* clean_work_orders: the column labels, the three currency columns, the
\* three date columns; the closing fillna(0) on the numeric columns finds
\* the currency columns already filled
clean_work_orders(df0) ==
    LET df1 == clean_columns(df0)
        df2 == convert_currency(convert_currency(convert_currency(df1,
                   currency_cols[1]), currency_cols[2]), currency_cols[3])
        df3 == convert_dates(convert_dates(convert_dates(df2,
                   date_cols[1]), date_cols[2]), date_cols[3])
    IN  df3

(***************************************************************************)
(* generate_ai_response: the priority ladder                               *)
(***************************************************************************)
revenue_col == "billed value in rupees (incl of gst.) (masked)"
deal_value_col == "masked deal value"
deal_status_col == "deal status"

\* the phrases tested against the raw query in the first branch condition
free_text_words == <<"effectively", "efficiency", "win rate", "close rate", "converting">>

\* the ladder with the sector branch tested before the collection branch
Branch_SectorBeforeCollection(query, intents) ==
    IF InList("conversion", intents) \/ ContainsAny(query, free_text_words)
    THEN "conversion"
    ELSE IF InList("sector", intents) THEN "sector"
    ELSE IF InList("collection", intents) THEN "collection"
    ELSE IF InList("revenue", intents) THEN "revenue"
    ELSE IF InList("pipeline", intents) THEN "pipeline"
    ELSE IF InList("trends", intents) THEN "trends"
    ELSE IF InList("leadership", intents) \/ InList("performance", intents)
         THEN "leadership"
    ELSE "fallback"

\* the branch of the if/elif chain that is entered
Branch(query, intents) ==
    IF InList("conversion", intents) \/ ContainsAny(query, free_text_words)
    THEN "conversion"
    ELSE IF InList("collection", intents) THEN "collection"
    ELSE IF InList("sector", intents) THEN "sector"
    ELSE IF InList("revenue", intents) THEN "revenue"
    ELSE IF InList("pipeline", intents) THEN "pipeline"
    ELSE IF InList("trends", intents) THEN "trends"
    ELSE IF InList("leadership", intents) \/ InList("performance", intents)
         THEN "leadership"
    ELSE "fallback"

\* branch: the branch entered; kind: "narrative", "unavailable" (the one-line
\* "not available" return of the collection and sector branches) or
\* "raised" (an exception leaves the function)
generate_ai_response(query, work_df0, deals_df0) ==
    LET work_df == clean_dataframe(work_df0)
        deals_df == clean_dataframe(deals_df0)
        intents == extract_keywords(query)
        collection_data == analyze_collections(work_df)
        sector_data == sector_analysis(work_df, revenue_col)
        branch == Branch(query, intents)
        total_revenue ==
            SeqSum([i \in 1..Len(sector_data.rows) |-> sector_data.rows[i].revenue])
        kind ==
            CASE branch = "collection" ->
                    IF DOMAIN collection_data = {} THEN "unavailable" ELSE "narrative"
              [] branch = "sector" ->
                    IF sector_data.is_none \/ Len(sector_data.rows) = 0
                    THEN "unavailable"
                    \* line 258 divides by total_revenue unguarded
                    ELSE IF total_revenue = 0 THEN "raised" ELSE "narrative"
                 \* line 276: the format specification of the f-string field
                 \* is not a valid one, format() raises ValueError
              [] branch = "revenue" -> "raised"
              [] OTHER -> "narrative"
    IN  [branch |-> branch, kind |-> kind, intents |-> intents]

(***************************************************************************)
(* check_for_clarification: the clarification gate                         *)
(***************************************************************************)
sector_words == <<"sector", "industry", "vertical">>
time_words == <<"this quarter", "last quarter", "this month", "last month", "recent", "latest">>
vague_words == <<"how", "what", "tell me", "update">>

QuarterQuestion ==
    "I currently have the latest data available. Are you looking for Q1, Q2, Q3, or Q4 2024?"
VagueQuestion ==
    "Could you be more specific? You can ask about revenue, pipeline, sector performance, or collections."

RECURSIVE Unique(_)
\* series.dropna().unique().tolist(): distinct values in order of appearance
Unique(series) ==
    IF Len(series) = 0 THEN <<>>
    ELSE LET init == Unique(SubSeq(series, 1, Len(series) - 1))
             v == series[Len(series)]
         IN  IF v = None \/ InList(v, init) THEN init ELSE Append(init, v)

RECURSIVE JoinQuoted(_)
\* ", ".join([f"'{s}'" for s in lst])
JoinQuoted(lst) ==
    IF Len(lst) = 0 THEN ""
    ELSE IF Len(lst) = 1 THEN "'" \o lst[1] \o "'"
    ELSE "'" \o lst[1] \o "', " \o JoinQuoted(Tail(lst))

\* available_sectors[:5]
FirstFive(lst) == SubSeq(lst, 1, IF Len(lst) < 5 THEN Len(lst) ELSE 5)

SectorQuestion(available_sectors) ==
    "I found these sectors: " \o JoinQuoted(FirstFive(available_sectors))
        \o ". Which one would you like to know about?"

\* the value of sector_mentioned after the loop: the first available sector
\* whose lower-cased name is in the lower-cased query, or None
SectorMentioned(available_sectors, query_lower) ==
    LET hits == {i \in 1..Len(available_sectors) :
                    Contains(query_lower, Lower(available_sectors[i]))}
    IN  IF hits = {} THEN None
        ELSE available_sectors[CHOOSE i \in hits : \A j \in hits : i <= j]

\* Python truthiness of sector_mentioned: None and the empty string are false
Falsy(v) == v = None \/ v = ""

\* the condition of the outer if of the sector check (line 166)
SectorRelated(query) ==
    InList("sector", extract_keywords(query)) \/ ContainsAny(Lower(query), sector_words)

\* lines 165-181: the sector check returns a question
SectorRuleFires(query, work_df) ==
    /\ SectorRelated(query)
    /\ HasCol(work_df, "sector")
    /\ LET available_sectors == Unique(Column(work_df, "sector"))
       IN  /\ Falsy(SectorMentioned(available_sectors, Lower(query)))
           /\ Len(available_sectors) > 0

\* lines 183-188
TimeRuleFires(query) ==
    ContainsAny(Lower(query), time_words) /\ Contains(Lower(query), "quarter")

\* lines 190-193
VagueRuleFires(query) ==
    TokenCount(query) < 4 /\ ContainsAny(Lower(query), vague_words)

\* the gate with the vague-query check placed before the date check
check_for_clarification_VagueBeforeTime(query, work_df, deals_df) ==
    IF SectorRuleFires(query, work_df)
    THEN [needs |-> TRUE,
          question |-> SectorQuestion(Unique(Column(work_df, "sector"))),
          clarified_query |-> query]
    ELSE IF VagueRuleFires(query)
    THEN [needs |-> TRUE, question |-> VagueQuestion, clarified_query |-> query]
    ELSE IF TimeRuleFires(query)
    THEN [needs |-> TRUE, question |-> QuarterQuestion, clarified_query |-> query]
    ELSE [needs |-> FALSE, question |-> None, clarified_query |-> query]

\* the returned triple (needs_clarification, question, clarified_query)
check_for_clarification(query, work_df, deals_df) ==
    IF SectorRuleFires(query, work_df)
    THEN [needs |-> TRUE,
          question |-> SectorQuestion(Unique(Column(work_df, "sector"))),
          clarified_query |-> query]
    ELSE IF TimeRuleFires(query)
    THEN [needs |-> TRUE, question |-> QuarterQuestion, clarified_query |-> query]
    ELSE IF VagueRuleFires(query)
    THEN [needs |-> TRUE, question |-> VagueQuestion, clarified_query |-> query]
    ELSE [needs |-> FALSE, question |-> None, clarified_query |-> query]

(***************************************************************************)
(* Session state (st.session_state) and the turn handlers of app.py        *)
(***************************************************************************)
VARIABLES
    messages,   \* st.session_state.messages: [role, kind] per message
    context,    \* st.session_state.context
    work_df,    \* st.session_state.data_cache["work_df"]
    deals_df,   \* st.session_state.data_cache["deals_df"]
    turn,       \* number of turns handled so far
    last,       \* record of the turn handled last
    asked,      \* the query the most recent clarifying question was about
    leadership_reports, \* st.session_state.leadership_reports
    now,        \* the clock, in seconds since the session started
    load_cache, \* the entry of st.cache_data for load_data()
    last_fetch, \* st.session_state.data_cache["last_fetch"]: <<>> is None
    fn_in,      \* arguments of a function applied on its own: [query, work, deals]
    fn_out      \* the result of that function, tagged by op

svars == <<messages, context, work_df, deals_df, turn, last, asked>>
fvars == <<fn_in, fn_out>>
\* the report history, the clock and the fetch cache
rvars == <<leadership_reports, now, load_cache, last_fetch>>
vars == <<messages, context, work_df, deals_df, turn, last, asked,
          leadership_reports, now, load_cache, last_fetch, fn_in, fn_out>>

\* number of turns explored
MaxTurns == 3

sample_questions ==
    <<"Are we converting pipeline effectively?",
      "What's our revenue by sector?",
      "How healthy is our cash collection?",
      "Which sector is performing best?",
      "Give me a leadership summary",
      "What's our win rate?",
      "How much is outstanding in receivables?">>

\* what the user types into the chat box
ChatInputs ==
    {"How are we?", "revenue last quarter", "sector revenue breakdown", "Mining", "Q1"}

\* contents of the two boards at fetch time
BoardLower ==
    [work  |-> [cols |-> <<"sector", "billed value in rupees (incl of gst.) (masked)">>,
                rows |-> << <<"Mining", "1,000">>, <<"Rail", "500">> >>],
     deals |-> [cols |-> <<"deal status", "masked deal value">>,
                rows |-> << <<"Won", "2000">>, <<"Lost", "500">> >>]]
BoardTitled ==
    [work  |-> [cols |-> <<"Sector", "Billed Value in Rupees (Incl of GST.) (Masked)">>,
                rows |-> << <<"Mining", "N/A">>, <<"Rail", "0">> >>],
     deals |-> [cols |-> <<"Deal Status", "Masked Deal Value">>,
                rows |-> << <<"Open", "300">> >>]]
BoardEmpty == [work |-> EmptyFrame, deals |-> EmptyFrame]
Boards == {BoardLower, BoardTitled, BoardEmpty}

\* the context dictionary of init_session_state and of the refresh handler;
\* only the keys the handlers read or write are kept
InitialContext ==
    [clarification_needed    |-> FALSE,
     clarification_question  |-> None,
     pending_query           |-> None,
     pending_clarified_query |-> Absent,
     clarification_asked_for |-> Absent]

NoTurn ==
    [path |-> "none", raw |-> None, processed |-> None, awaiting |-> FALSE,
     deferred |-> None, asked_before |-> None, outcome |-> "none", branch |-> "none"]

\* str() of a context value inside an f-string
Fmt(v) == IF v = None THEN "None" ELSE v

UserMsg == [role |-> "user", kind |-> "user"]
AssistantMsg(kind) == [role |-> "assistant", kind |-> kind]

\* @st.cache_data(ttl=300): seconds an entry of the cache stays valid
ttl == 300

\* the cache of load_data() holding no entry
NoEntry == [valid |-> FALSE, at |-> 0, work |-> EmptyFrame, deals |-> EmptyFrame]

\* what a fetch can deliver: the two boards, or an exception of the request
FetchOutcomes == {[ok |-> TRUE, board |-> b] : b \in Boards}
                 \cup {[ok |-> FALSE, board |-> BoardEmpty]}

\* load_data() under st.cache_data at time t: an entry younger than ttl is
\* returned without running the body; otherwise the body runs (a failed
\* fetch returns two empty frames and leaves last_fetch alone) and its
\* return value is stored
load_data(cache, stamp, t, fetched) ==
    IF cache.valid /\ t - cache.at < ttl
    THEN [work |-> cache.work, deals |-> cache.deals, cache |-> cache, stamp |-> stamp]
    ELSE [work |-> fetched.board.work, deals |-> fetched.board.deals,
          cache |-> [valid |-> TRUE, at |-> t,
                     work |-> fetched.board.work, deals |-> fetched.board.deals],
          stamp |-> IF fetched.ok THEN <<t>> ELSE stamp]

\* get_data(): load_data() only when the session holds no tables
get_data(held, w, d, cache, stamp, t, fetched) ==
    IF ~held THEN load_data(cache, stamp, t, fetched)
    ELSE [work |-> w, deals |-> d, cache |-> cache, stamp |-> stamp]

\* the requests a run can make: none while the session holds its tables
Fetches(held) == IF held THEN {[ok |-> FALSE, board |-> BoardEmpty]} ELSE FetchOutcomes

\* the tables a run works on: get_data() at the top of the script (lines 363
\* and 383), the session holding the tables of an earlier run
HeldData ==
    LET f == CHOOSE o \in Fetches(TRUE) : TRUE
    IN  get_data(TRUE, work_df, deals_df, load_cache, last_fetch, now, f)

\* the cache left as it is by the refresh button
ClearCache_Kept(cache) == cache

\* st.cache_data.clear()
ClearCache(cache) == NoEntry

\* state after init_session_state() and the first get_data()
SessionInit ==
    /\ messages = <<>>
    /\ context = InitialContext
    /\ now = 0
    /\ \E f \in FetchOutcomes :
           LET got == get_data(FALSE, EmptyFrame, EmptyFrame, NoEntry, <<>>, 0, f)
           IN  /\ work_df = got.work
               /\ deals_df = got.deals
               /\ load_cache = got.cache
               /\ last_fetch = got.stamp
    /\ leadership_reports = <<>>
    /\ turn = 0
    /\ last = NoTurn
    /\ asked = None

\* app.py 467: the sample handler asks only when no clarification is open
SampleShouldAsk(ctx, gate) == gate.needs /\ ~ctx.clarification_needed

\* the update without the assignment of the flag
SampleAskUpdate_FlagNotSet(ctx, gate) ==
    [ctx EXCEPT !.clarification_question = gate.question,
                !.pending_clarified_query = gate.clarified_query]

\* app.py 469-471
SampleAskUpdate(ctx, gate) ==
    [ctx EXCEPT !.clarification_needed = TRUE,
                !.clarification_question = gate.question,
                !.pending_clarified_query = gate.clarified_query]

\* app.py 510-511: a reply closes the open clarification
ConsumeClarification(ctx) ==
    IF ctx.clarification_needed
    THEN [ctx EXCEPT !.clarification_needed = FALSE,
                     !.pending_clarified_query = None]
    ELSE ctx

\* app.py 522: the chat handler skips a query it has already asked about
ChatShouldAsk(ctx, gate, full_query) ==
    gate.needs /\ ~(ctx.clarification_asked_for = full_query)

\* app.py 524-527
ChatAskUpdate(ctx, gate, full_query) ==
    [ctx EXCEPT !.clarification_needed = TRUE,
                !.clarification_question = gate.question,
                !.pending_clarified_query = gate.clarified_query,
                !.clarification_asked_for = full_query]

\* app.py 355-360: a sample-question button stores the question and reruns
SampleClick(i) ==
    /\ context.pending_query = None
    /\ turn < MaxTurns
    /\ context' = [context EXCEPT !.pending_query = sample_questions[i]]
    /\ UNCHANGED <<messages, work_df, deals_df, turn, last, asked, rvars, fn_in, fn_out>>

\* app.py 454-496: the rerun handles the pending sample question
PendingQuery ==
    /\ context.pending_query # None
    /\ LET query == context.pending_query
           data == HeldData
           gate == check_for_clarification(query, data.work, data.deals)
           ask == SampleShouldAsk(context, gate)
           resp == generate_ai_response(query, data.work, data.deals)
           turnRec(outcome, branch) ==
               [path |-> "sample", raw |-> query, processed |-> query,
                awaiting |-> context.clarification_needed,
                deferred |-> context.pending_clarified_query,
                asked_before |-> asked,
                outcome |-> outcome, branch |-> branch]
       IN  IF ask
           THEN /\ context' = SampleAskUpdate([context EXCEPT !.pending_query = None], gate)
                /\ messages' = messages \o <<UserMsg, AssistantMsg("clarification")>>
                /\ last' = turnRec("clarification", "none")
                /\ asked' = query
           ELSE IF resp.kind = "raised"
           \* no try/except here: the exception ends the script run
           THEN /\ context' = [context EXCEPT !.pending_query = None]
                /\ messages' = Append(messages, UserMsg)
                /\ last' = turnRec("crashed", resp.branch)
                /\ asked' = asked
           ELSE /\ context' = [context EXCEPT
                        !.pending_query = None,
                        !.clarification_needed = FALSE]
                /\ messages' = messages \o <<UserMsg, AssistantMsg("response")>>
                /\ last' = turnRec("response", resp.branch)
                /\ asked' = asked
    /\ turn' = turn + 1
    /\ work_df' = HeldData.work
    /\ deals_df' = HeldData.deals
    /\ load_cache' = HeldData.cache
    /\ last_fetch' = HeldData.stamp
    /\ UNCHANGED <<leadership_reports, now, fn_in, fn_out>>

\* the reply handled on its own, the deferred query dropped
FullQuery_ReplyOnly(ctx, prompt) == prompt

\* app.py 504-513: the query handled by a chat turn
FullQuery(ctx, prompt) ==
    IF ctx.clarification_needed
    THEN LET original_query ==
                 IF ctx.pending_clarified_query = Absent
                 THEN prompt ELSE ctx.pending_clarified_query
         IN  Fmt(original_query) \o " (" \o prompt \o ")"
    ELSE prompt

\* app.py 499-565: typed chat input
ChatInput(prompt) ==
    /\ context.pending_query = None
    /\ turn < MaxTurns
    /\ LET full_query == FullQuery(context, prompt)
           ctx1 == ConsumeClarification(context)
           data == HeldData
           gate == check_for_clarification(full_query, data.work, data.deals)
           ask == ChatShouldAsk(ctx1, gate, full_query)
           resp == generate_ai_response(full_query, data.work, data.deals)
           turnRec(outcome, branch) ==
               [path |-> "chat", raw |-> prompt, processed |-> full_query,
                awaiting |-> context.clarification_needed,
                deferred |-> context.pending_clarified_query,
                asked_before |-> asked,
                outcome |-> outcome, branch |-> branch]
       IN  IF ask
           THEN /\ context' = ChatAskUpdate(ctx1, gate, full_query)
                /\ messages' = messages \o <<UserMsg, AssistantMsg("clarification")>>
                /\ last' = turnRec("clarification", "none")
                /\ asked' = full_query
           ELSE /\ context' = ctx1
                \* the try/except turns an exception into an error message
                /\ messages' = messages \o
                       <<UserMsg, AssistantMsg(IF resp.kind = "raised"
                                               THEN "error" ELSE "response")>>
                /\ last' = turnRec(IF resp.kind = "raised" THEN "error" ELSE "response",
                                   resp.branch)
                /\ asked' = asked
    /\ turn' = turn + 1
    /\ work_df' = HeldData.work
    /\ deals_df' = HeldData.deals
    /\ load_cache' = HeldData.cache
    /\ last_fetch' = HeldData.stamp
    /\ UNCHANGED <<leadership_reports, now, fn_in, fn_out>>

\* app.py 297-311 and the get_data() of the rerun: the refresh button
Refresh ==
    /\ context.pending_query = None
    /\ messages' = <<>>
    /\ context' = InitialContext
    /\ \E f \in FetchOutcomes :
           LET got == get_data(FALSE, EmptyFrame, EmptyFrame,
                               ClearCache(load_cache), last_fetch, now, f)
           IN  /\ work_df' = got.work
               /\ deals_df' = got.deals
               /\ load_cache' = got.cache
               /\ last_fetch' = got.stamp
    /\ last' = [NoTurn EXCEPT !.path = "refresh"]
    /\ asked' = None
    /\ UNCHANGED <<turn, leadership_reports, now, fn_in, fn_out>>

(***************************************************************************)
(* The functions applied to inputs drawn from bounded sets                 *)
(***************************************************************************)
\* bounds of the generated deal and work-order tables
MaxStatusRows == 3
MaxWon == 3
MaxLost == 2
MaxActive == 1
MaxWorkRows == 2

RECURSIVE Repeat(_, _)
Repeat(row, n) == IF n = 0 THEN <<>> ELSE <<row>> \o Repeat(row, n - 1)

RECURSIVE SeqsUpTo(_, _)
\* all sequences over S of length at most n
SeqsUpTo(S, n) ==
    IF n = 0 THEN {<<>>}
    ELSE LET shorter == SeqsUpTo(S, n - 1)
         IN  shorter \cup {Append(sq, e) : sq \in shorter, e \in S}

RECURSIVE JoinWords(_)
\* " ".join of the non-empty parts
JoinWords(parts) ==
    IF Len(parts) = 0 THEN ""
    ELSE LET rest == JoinWords(Tail(parts))
         IN  IF parts[1] = "" THEN rest
             ELSE IF rest = "" THEN parts[1]
             ELSE parts[1] \o " " \o rest

DealValueTexts == {"250", "0", "-100"}
BilledTexts == {"600", "-100", "N/A"}

DealsTable(nw, nl, na, v) ==
    [cols |-> <<"Deal Status", "Masked Deal Value">>,
     rows |-> Repeat(<<"Won", v>>, nw) \o Repeat(<<"Closed Lost", v>>, nl)
              \o Repeat(<<"Open", v>>, na)]

WorkTable(billed) ==
    [cols |-> <<"Billed Value in Rupees (Incl of GST.) (Masked)">>,
     rows |-> [i \in 1..Len(billed) |-> <<billed[i]>>]]

\* spellings of the deal status cell; None is a deal without a status
StatusTexts ==
    {"Won", "won", "Closed Won", "WON", "Lost", "lost", "Closed Lost", None}

\* a deals board with one row per status
StatusTable(statuses) ==
    [cols |-> <<"Deal Status", "Masked Deal Value">>,
     rows |-> [i \in 1..Len(statuses) |-> <<statuses[i], "250">>]]

\* a deals board that has no status column
NoStatusTable(n) ==
    [cols |-> <<"Masked Deal Value">>, rows |-> Repeat(<<"250">>, n)]

\* tables for the metric calculation
MetricInputs ==
    {[query |-> "status", work |-> WorkTable(b), deals |-> DealsTable(nw, nl, na, v)] :
        b \in SeqsUpTo(BilledTexts, MaxWorkRows),
        nw \in 0..MaxWon, nl \in 0..MaxLost, na \in 0..MaxActive,
        v \in DealValueTexts}
    \cup {[query |-> "status", work |-> WorkTable(<<"600">>), deals |-> StatusTable(st)] :
              st \in SeqsUpTo(StatusTexts, MaxStatusRows)}
    \cup {[query |-> "status", work |-> WorkTable(<<"600">>), deals |-> NoStatusTable(n)] :
              n \in 0..MaxStatusRows}

\* queries made of one phrase per category, present or not
LadderQueries ==
    {JoinWords(<<c, r, p, s, f, l, t, e>>) :
        c \in {"", "conversion", "win rate", "Win Rate"},
        r \in {"", "revenue"}, p \in {"", "pipeline"}, s \in {"", "Sector"},
        f \in {"", "health"}, l \in {"", "unpaid"}, t \in {"", "growth"},
        e \in {"", "ceo"}} \ {""}

LadderInputs ==
    {[query |-> q, work |-> b.work, deals |-> b.deals] :
        q \in LadderQueries, b \in {BoardLower, BoardTitled}}

\* queries for the gate: vague word, sector word, sector name, time phrase
GateQueries ==
    {JoinWords(<<v, w, n, t, f>>) :
        v \in {"", "what", "Tell me"},
        w \in {"", "sector", "Industry"},
        n \in {"", "mining", "Rail"},
        t \in {"", "last quarter", "recent"},
        f \in {"", "numbers please now"}} \ {""}

SectorTable(label, names) ==
    [cols |-> <<label, "billed value in rupees (incl of gst.) (masked)">>,
     rows |-> [i \in 1..Len(names) |-> <<names[i], "100">>]]

GateWork ==
    {SectorTable("sector", <<"Mining", "Rail", "Mining">>),
     SectorTable("sector", <<"", "Mining">>),
     SectorTable("sector", <<None, None>>),
     SectorTable("sector", <<"Aviation", "Energy", "Mining", "Ports", "Rail", "Telecom">>),
     SectorTable("Sector", <<"Mining", "Rail">>),
     EmptyFrame}

GateInputs ==
    {[query |-> q, work |-> w, deals |-> BoardLower.deals] :
        q \in GateQueries, w \in GateWork}

FnInputs == MetricInputs \cup LadderInputs \cup GateInputs

NoOutput == [op |-> "none"]

FnInit ==
    /\ fn_in \in FnInputs
    /\ fn_out = NoOutput

\* generate_ai_response applied to the input
Compose ==
    /\ fn_out = NoOutput
    /\ fn_out' = [op |-> "compose",
                  r |-> generate_ai_response(fn_in.query, fn_in.work, fn_in.deals)]
    /\ UNCHANGED <<fn_in, svars, rvars>>

\* check_for_clarification applied to the input
Gate ==
    /\ fn_out = NoOutput
    /\ fn_out' = [op |-> "gate",
                  r |-> check_for_clarification(fn_in.query, fn_in.work, fn_in.deals)]
    /\ UNCHANGED <<fn_in, svars, rvars>>

\* calculate_conversion_metrics applied to the cleaned tables, as both of
\* its callers apply it
Metrics ==
    /\ fn_out = NoOutput
    /\ fn_out' = [op |-> "metrics",
                  r |-> calculate_conversion_metrics(
                            clean_dataframe(fn_in.work), clean_dataframe(fn_in.deals),
                            revenue_col, deal_value_col, deal_status_col)]
    /\ UNCHANGED <<fn_in, svars, rvars>>

\* the session, with the function inputs idle
Init ==
    /\ SessionInit
    /\ fn_in = [query |-> "", work |-> EmptyFrame, deals |-> EmptyFrame]
    /\ fn_out = NoOutput

Next ==
    \/ \E i \in 1..Len(sample_questions) : SampleClick(i)
    \/ PendingQuery
    \/ \E prompt \in ChatInputs : ChatInput(prompt)
    \/ Refresh

Spec == Init /\ [][Next]_vars

\* the functions on their inputs, with the session idle
InitFn ==
    /\ FnInit
    /\ messages = <<>>
    /\ context = InitialContext
    /\ work_df = EmptyFrame
    /\ deals_df = EmptyFrame
    /\ turn = 0
    /\ last = NoTurn
    /\ asked = None
    /\ leadership_reports = <<>>
    /\ now = 0
    /\ load_cache = NoEntry
    /\ last_fetch = <<>>

NextFn == Compose \/ Gate \/ Metrics

SpecFn == InitFn /\ [][NextFn]_vars

(***************************************************************************)
(* app.py: generate_leadership_report                                      *)
(***************************************************************************)
\* format(x, ".0f"): the nearest integer, a tie going to the even one
Round0(x) ==
    LET q == x.n \div x.d
        twice == 2 * (x.n % x.d)
    IN  IF twice < x.d THEN q
        ELSE IF twice > x.d THEN q + 1
        ELSE IF q % 2 = 0 THEN q ELSE q + 1

\* the label with the upper threshold taken as "at least 70"
HealthLabel_AtLeast70(health_score) ==
    IF RatLe(RatInt(70), health_score) THEN "Healthy"
    ELSE IF RatLt(RatInt(40), health_score) THEN "Needs Attention"
    ELSE "Critical"

\* line 218: health_status
HealthLabel(health_score) ==
    IF RatLt(RatInt(70), health_score) THEN "Healthy"
    ELSE IF RatLt(RatInt(40), health_score) THEN "Needs Attention"
    ELSE "Critical"

\* line 219: health_emoji, the coloured circle written by its colour
HealthEmoji(health_score) ==
    IF RatLt(RatInt(70), health_score) THEN "green"
    ELSE IF RatLt(RatInt(40), health_score) THEN "yellow"
    ELSE "red"

\* the report as its computed parts (the fixed text around them and the
\* timestamp read from the clock are left out) and the metadata
generate_leadership_report(work_df0, deals_df0) ==
    LET work_df_clean == clean_dataframe(work_df0)
        deals_df_clean == clean_dataframe(deals_df0)
        metrics == calculate_conversion_metrics(work_df_clean, deals_df_clean,
                       revenue_col, deal_value_col, deal_status_col)
        collection_data == analyze_collections(work_df_clean)
        sector_data == sector_analysis(work_df_clean, revenue_col)
        health_status == HealthLabel(metrics.health_score)
        health_emoji == HealthEmoji(metrics.health_score)
        top_sector ==
            IF ~sector_data.is_none /\ Len(sector_data.rows) > 0
            THEN sector_data.rows[1].sector ELSE "N/A"
        collection_rate ==
            IF "collection_rate" \in DOMAIN collection_data
            THEN collection_data.collection_rate ELSE RatInt(0)
        receivables == Get0(collection_data, "receivables")
    IN  [report |->
            [banner |-> [emoji |-> health_emoji, status |-> health_status,
                         score |-> Round0(metrics.health_score)],
             revenue_status |->
                 IF metrics.total_revenue > 1000000 THEN "Strong" ELSE "Low",
             pipeline_status |->
                 IF metrics.total_pipeline > metrics.total_revenue
                 THEN "Growing" ELSE "Stagnant",
             realization_status |->
                 IF RatLt(RatInt(50), metrics.realization_rate) THEN "Good" ELSE "Needs Work",
             collection_status |->
                 IF RatLt(RatInt(80), collection_rate) THEN "Healthy" ELSE "Poor",
             total_deals |-> metrics.total_deals,
             active_deals |-> metrics.active_deals,
             top_sector |-> top_sector,
             revenue_action |->
                 IF metrics.active_deals > 5 THEN "Accelerate deal closures"
                 ELSE "Generate new pipeline",
             conversion_action |->
                 IF RatLt(RatInt(30), metrics.win_rate) THEN "Maintain momentum"
                 ELSE "Review sales process",
             cash_action |->
                 IF receivables > 1000000 THEN "Monitor receivables"
                 ELSE "Optimize working capital",
             summary_status |-> health_status,
             collections_note |->
                 IF RatLt(collection_rate, RatInt(70))
                 THEN "Immediate attention required on collections."
                 ELSE "Collections are on track."],
         metadata |->
            [health_score |-> metrics.health_score,
             revenue |-> metrics.total_revenue,
             pipeline |-> metrics.total_pipeline,
             status |-> health_status]]

(***************************************************************************)
(* The table functions on bounded inputs: one pending call, then its       *)
(* result                                                                  *)
(***************************************************************************)
MaxCollRows == 2

BilledCells == {"1000", "0", "-100"}
CollectedCells == {"900", "0"}
ReceivableCells == {"0", "50"}

\* one work order: its billed, collected and receivable cells
CollectionRows == [b : BilledCells, c : CollectedCells, r : ReceivableCells]

\* a work board carrying the chosen ones of the three collection columns
CollectionTable(hasB, hasC, hasR, orders) ==
    [cols |-> (IF hasB THEN <<"Billed Value in Rupees (Incl of GST.) (Masked)">> ELSE <<>>)
              \o (IF hasC THEN <<"Collected Amount in Rupees (Incl of GST.) (Masked)">>
                  ELSE <<>>)
              \o (IF hasR THEN <<"Amount Receivable (Masked)">> ELSE <<>>),
     rows |-> [i \in 1..Len(orders) |->
                  (IF hasB THEN <<orders[i].b>> ELSE <<>>)
                  \o (IF hasC THEN <<orders[i].c>> ELSE <<>>)
                  \o (IF hasR THEN <<orders[i].r>> ELSE <<>>)]]

CollectionInputs ==
    {[fn |-> "analyze_collections", query |-> "",
      work |-> CollectionTable(hb, hc, hr, orders), deals |-> EmptyFrame] :
        hb \in BOOLEAN, hc \in BOOLEAN, hr \in BOOLEAN,
        orders \in SeqsUpTo(CollectionRows, MaxCollRows)}

\* analyze_collections applied to the cleaned work table, as both of its
\* callers apply it
Collections ==
    /\ fn_out = NoOutput
    /\ fn_in.fn = "analyze_collections"
    /\ fn_out' = [op |-> "collections",
                  r |-> analyze_collections(clean_dataframe(fn_in.work))]
    /\ UNCHANGED <<fn_in, svars, rvars>>

MaxSectorRows == 3

\* the sector cell of a work order; None is an order without a sector
SectorCells == {"Mining", "Rail", "Energy", None}
RevenueCells == {"100", "200"}

\* a work board with a sector and a billed-value column
SectorRevenueTable(orders) ==
    [cols |-> <<"Sector", "Billed Value in Rupees (Incl of GST.) (Masked)">>,
     rows |-> orders]

SectorInputs ==
    {[fn |-> "sector_analysis", query |-> "",
      work |-> SectorRevenueTable(orders), deals |-> EmptyFrame] :
        orders \in SeqsUpTo({<<sc, rv>> : sc \in SectorCells, rv \in RevenueCells},
                            MaxSectorRows)}
    \cup {[fn |-> "sector_analysis", query |-> "",
           work |-> WorkTable(<<"600">>), deals |-> EmptyFrame]}

\* sector_analysis applied to the cleaned work table, as both of its callers
\* apply it
Sectors ==
    /\ fn_out = NoOutput
    /\ fn_in.fn = "sector_analysis"
    /\ fn_out' = [op |-> "sectors",
                  r |-> sector_analysis(clean_dataframe(fn_in.work), revenue_col)]
    /\ UNCHANGED <<fn_in, svars, rvars>>

\* queries for the intent detection: the ladder queries as typed and in
\* lower case, and queries with a keyword inside a longer word, repeated,
\* or absent
ClassifyQueries ==
    LadderQueries \cup {Lower(q) : q \in LadderQueries}
    \cup {"", "hello there", "unconverted", "UNCONVERTED", "Unconverted Sector Revenue",
          "sector revenue breakdown", "convert conversion converting",
          "Sector sector SECTOR industry", "subsector", "Quarterly income"}

ClassifyInputs ==
    {[fn |-> "extract_keywords", query |-> q, work |-> EmptyFrame, deals |-> EmptyFrame] :
        q \in ClassifyQueries}

\* extract_keywords applied to the query
Classify ==
    /\ fn_out = NoOutput
    /\ fn_in.fn = "extract_keywords"
    /\ fn_out' = [op |-> "classify", r |-> extract_keywords(fn_in.query)]
    /\ UNCHANGED <<fn_in, svars, rvars>>

MaxCellLen == 3

RECURSIVE StringsUpTo(_, _)
\* all strings over the characters of S of length at most n
StringsUpTo(S, n) ==
    IF n = 0 THEN {""}
    ELSE LET shorter == StringsUpTo(S, n - 1)
         IN  shorter \cup {t \o c : t \in shorter, c \in S}

\* currency cells: an optional symbol before digits and separators, the
\* worked example, and cells that are no amount
CurrencyCells ==
    {sym \o body : sym \in {"", RupeeSign, "$"},
                   body \in StringsUpTo({"0", "1", "5", ","}, MaxCellLen)}
    \cup {RupeeSign \o "1,250,000", "$1,250,000", "1,250,000", "N/A", "-100", "$-100",
          "!*~500", "@!^500", None}

\* a work board with one billed-value cell
CurrencyTable(cell) ==
    [cols |-> <<"billed value in rupees (incl of gst.) (masked)">>, rows |-> <<<<cell>>>>]

CurrencyInputs ==
    {[fn |-> f, query |-> "", work |-> CurrencyTable(cell), deals |-> EmptyFrame] :
        f \in {"safe_numeric", "convert_currency"}, cell \in CurrencyCells}

\* safe_numeric applied to the billed-value column
SafeNumeric ==
    /\ fn_out = NoOutput
    /\ fn_in.fn = "safe_numeric"
    /\ fn_out' = [op |-> "safe_numeric", r |-> safe_numeric(Column(fn_in.work, billed_col))]
    /\ UNCHANGED <<fn_in, svars, rvars>>

\* convert_currency applied to the billed-value column
ConvertCurrency ==
    /\ fn_out = NoOutput
    /\ fn_in.fn = "convert_currency"
    /\ fn_out' = [op |-> "convert_currency",
                  r |-> Column(convert_currency(fn_in.work, billed_col), billed_col)]
    /\ UNCHANGED <<fn_in, svars, rvars>>

MaxHeaderCols == 2

\* column labels as a board delivers them
HeaderTexts == {"Sector", " Deal Status ", "sector", "AMOUNT "}

\* tables of one text cell per column, with no row or with one
HeaderTables ==
    {[cols |-> h, rows |-> IF n = 0 THEN <<>> ELSE <<[j \in 1..Len(h) |-> "x"]>>] :
        h \in SeqsUpTo(HeaderTexts, MaxHeaderCols), n \in {0, 1}}

HeaderInputs ==
    {[fn |-> f, query |-> "", work |-> t, deals |-> EmptyFrame] :
        f \in {"clean_dataframe", "clean_columns"}, t \in HeaderTables}

\* insights_agent.clean_dataframe applied to the table
CleanDataframe ==
    /\ fn_out = NoOutput
    /\ fn_in.fn = "clean_dataframe"
    /\ fn_out' = [op |-> "clean_dataframe", r |-> clean_dataframe(fn_in.work)]
    /\ UNCHANGED <<fn_in, svars, rvars>>

\* data_cleaning.clean_columns applied to the table
CleanColumns ==
    /\ fn_out = NoOutput
    /\ fn_in.fn = "clean_columns"
    /\ fn_out' = [op |-> "clean_columns", r |-> clean_columns(fn_in.work)]
    /\ UNCHANGED <<fn_in, svars, rvars>>

MaxOrderRows == 2

\* one work order as the board delivers it: sector, billed value, collected
\* amount, receivable amount and creation date, all text
OrderRows ==
    {<<"Mining", b, "$1,000", r, d>> :
        b \in {"1000", "-100", "N/A", None},
        r \in {"50", "-5"},
        d \in {"2024-01-31", "soon"}}

WorkOrderTable(orders) ==
    [cols |-> <<"Sector", "Billed Value in Rupees (Incl of GST.) (Masked)",
                "Collected Amount in Rupees (Incl of GST.) (Masked)",
                "Amount Receivable (Masked)", "Created Date">>,
     rows |-> orders]

WorkOrderInputs ==
    {[fn |-> "clean_work_orders", query |-> "",
      work |-> WorkOrderTable(orders), deals |-> EmptyFrame] :
        orders \in SeqsUpTo(OrderRows, MaxOrderRows)}

\* clean_work_orders applied to the table
CleanWorkOrders ==
    /\ fn_out = NoOutput
    /\ fn_in.fn = "clean_work_orders"
    /\ fn_out' = [op |-> "clean_work_orders", r |-> clean_work_orders(fn_in.work)]
    /\ UNCHANGED <<fn_in, svars, rvars>>

MaxReportDeals == 2

\* boards for the leadership report: a billed total against a pipeline of
\* 250 per deal, with and without a sector column
ReportInputs ==
    {[fn |-> "generate_leadership_report", query |-> "",
      work  |-> IF withSector
                THEN SectorRevenueTable(<<<<"Mining", b>>, <<"Rail", "0">>>>)
                ELSE WorkTable(<<b>>),
      deals |-> DealsTable(nw, nl, na, "250")] :
        withSector \in BOOLEAN, b \in {"0", "125", "150", "600"},
        nw \in 0..MaxReportDeals, nl \in 0..MaxReportDeals, na \in 0..1}

\* generate_leadership_report applied to the two boards
Report ==
    /\ fn_out = NoOutput
    /\ fn_in.fn = "generate_leadership_report"
    /\ fn_out' = [op |-> "report",
                  r |-> generate_leadership_report(fn_in.work, fn_in.deals)]
    /\ UNCHANGED <<fn_in, svars, rvars>>

DataInputs ==
    CollectionInputs \cup SectorInputs \cup ClassifyInputs \cup CurrencyInputs
    \cup HeaderInputs \cup WorkOrderInputs \cup ReportInputs

InitData ==
    /\ fn_in \in DataInputs
    /\ fn_out = NoOutput
    /\ messages = <<>>
    /\ context = InitialContext
    /\ work_df = EmptyFrame
    /\ deals_df = EmptyFrame
    /\ turn = 0
    /\ last = NoTurn
    /\ asked = None
    /\ leadership_reports = <<>>
    /\ now = 0
    /\ load_cache = NoEntry
    /\ last_fetch = <<>>

NextData ==
    \/ Collections
    \/ Sectors
    \/ Classify
    \/ SafeNumeric
    \/ ConvertCurrency
    \/ CleanDataframe
    \/ CleanColumns
    \/ CleanWorkOrders
    \/ Report

SpecData == InitData /\ [][NextData]_vars

(***************************************************************************)
(* app.py: the leadership report button and the report history             *)
(***************************************************************************)
MaxReports == 6

\* strftime("%B %d, %Y at %I:%M %p"): the clock reading to the minute
ReportTime(t) == t \div 60

\* lines 418-419: the report shown expanded in the main panel
LatestReport(reports) == reports[Len(reports)]

\* reports[:5], the five oldest entries
LastFive_FirstFive(reports) ==
    SubSeq(reports, 1, IF Len(reports) < 5 THEN Len(reports) ELSE 5)

\* reports[-5:]
LastFive(reports) ==
    SubSeq(reports, IF Len(reports) > 5 THEN Len(reports) - 4 ELSE 1, Len(reports))

\* lines 335-339: the rows of the "Previous Reports" expander, top to
\* bottom: enumerate(reversed(reports[-5:])) with the number shown
PreviousReports(reports) ==
    LET shown == LastFive(reports)
    IN  [i \in 1..Len(shown) |->
            [number |-> Len(reports) - (i - 1),
             entry  |-> shown[Len(shown) - i + 1]]]

\* lines 321-332: the "Generate Leadership Report" button
LeadershipReport ==
    /\ context.pending_query = None
    /\ Len(leadership_reports) < MaxReports
    /\ LET data == HeldData
           made == generate_leadership_report(data.work, data.deals)
           entry == [report   |-> made.report,
                     metadata |-> [timestamp    |-> ReportTime(now),
                                   health_score |-> made.metadata.health_score,
                                   revenue      |-> made.metadata.revenue,
                                   pipeline     |-> made.metadata.pipeline,
                                   status       |-> made.metadata.status]]
       IN  /\ leadership_reports' =
                  IF ~IsEmpty(data.work) /\ ~IsEmpty(data.deals)
                  THEN Append(leadership_reports, entry)
                  ELSE leadership_reports
           /\ work_df' = data.work
           /\ deals_df' = data.deals
           /\ load_cache' = data.cache
           /\ last_fetch' = data.stamp
    /\ UNCHANGED <<messages, context, turn, last, asked, now, fn_in, fn_out>>

\* the session with the report button, one sample question and one typed
\* input
NextReports ==
    \/ LeadershipReport
    \/ Refresh
    \/ SampleClick(5)
    \/ PendingQuery
    \/ ChatInput("Mining")

SpecReports == Init /\ [][NextReports]_vars

(***************************************************************************)
(* The session with the clock running: expiry of the load_data() cache     *)
(***************************************************************************)
\* the clock is followed up to this many seconds
MaxClock == 600

\* seconds that pass between two interactions
Elapsed == {150, 300}

\* time passes, the script is not run
Tick ==
    /\ \E d \in Elapsed :
           /\ now + d <= MaxClock
           /\ now' = now + d
    /\ UNCHANGED <<svars, leadership_reports, load_cache, last_fetch, fn_in, fn_out>>

NextCache ==
    \/ Tick
    \/ Refresh
    \/ SampleClick(5)
    \/ PendingQuery
    \/ ChatInput("How are we?")

SpecCache == Init /\ [][NextCache]_vars

(***************************************************************************)
(* Properties                                                              *)
(***************************************************************************)

\* C1: generate_ai_response enters exactly one branch, the first category of
\* the order conversion, collection, sector, revenue, pipeline, trends,
\* (leadership or performance) that is in the IntentSet of the query,
\* whatever else is present, and the fallback exactly when the set is empty.
C1_PriorityLadder ==
    fn_out.op = "compose" =>
        LET intents == extract_keywords(fn_in.query)
            order == <<{"conversion"}, {"collection"}, {"sector"}, {"revenue"},
                       {"pipeline"}, {"trends"}, {"leadership", "performance"}>>
            names == <<"conversion", "collection", "sector", "revenue",
                       "pipeline", "trends", "leadership">>
            present == {i \in 1..Len(order) : \E c \in order[i] : InList(c, intents)}
        IN  /\ present # {} =>
                fn_out.r.branch = names[CHOOSE i \in present : \A j \in present : i <= j]
            /\ (fn_out.r.branch = "fallback") <=> (Len(intents) = 0)

\* a query carrying sector, revenue and a later category is answered by the
\* sector branch
C1_Witness ==
    /\ fn_out.op = "compose"
    /\ fn_out.r.branch = "sector"
    /\ InList("revenue", fn_out.r.intents)
    /\ InList("leadership", fn_out.r.intents)

\* C2 (as claimed): on the chat turn right after a clarifying question the
\* combined query is answered: the output is not another clarifying question
\* and the gate is back in NORMAL.
C2_ReplyIsAnswered ==
    (last.path = "chat" /\ last.awaiting) =>
        (last.outcome # "clarification" /\ ~context.clarification_needed)

\* C3 (as claimed): no clarifying question is emitted for a processed query
\* equal to the query the most recent clarifying question was about.
C3_NeverAskedTwice ==
    last.outcome = "clarification" => last.processed # last.asked_before

\* C4: a chat reply in AWAITING_CLARIFICATION is processed as
\* "<deferred query> (<reply>)", the deferred query being the one the
\* clarifying question was asked about; in NORMAL the raw input is processed.
C4_CombinedQuery ==
    last.path = "chat" =>
        IF last.awaiting
        THEN /\ last.asked_before # None
             /\ last.processed = last.asked_before \o " (" \o last.raw \o ")"
        ELSE last.processed = last.raw

\* a reply to a clarifying question has been processed
C4_Witness ==
    /\ last.path = "chat"
    /\ last.awaiting
    /\ last.outcome = "response"

\* C5: after every completed turn the clarification flag is set exactly when
\* the turn's output was a clarifying question, and whenever the flag is set
\* the stored deferred query is the query that question was about.
C5_FlagMatchesOutput ==
    /\ last.outcome \in {"clarification", "response", "error"} =>
           (context.clarification_needed <=> last.outcome = "clarification")
    /\ context.clarification_needed =>
           /\ context.pending_clarified_query \notin {None, Absent}
           /\ context.pending_clarified_query = asked

\* a sample-question click has been answered by a clarifying question
C5_Witness ==
    /\ last.path = "sample"
    /\ last.outcome = "clarification"
    /\ context.clarification_needed
    /\ context.pending_query = None

\* C6: the gate returns the question of the lowest-numbered rule that is
\* satisfied (sector ambiguity, relative time with quarter, short vague
\* query) and needs=false with no question exactly when none is; a query of
\* fewer than 4 tokens with a vague word always yields needs=true.
C6_RuleOrder ==
    fn_out.op = "gate" =>
        LET q == fn_in.query
            satisfied ==
                {r \in 1..3 :
                    \/ r = 1 /\ SectorRuleFires(q, fn_in.work)
                    \/ r = 2 /\ TimeRuleFires(q)
                    \/ r = 3 /\ VagueRuleFires(q)}
            first == CHOOSE r \in satisfied : \A o \in satisfied : r <= o
        IN  /\ satisfied = {} <=> ~fn_out.r.needs
            /\ satisfied = {} => fn_out.r.question = None
            /\ satisfied # {} =>
                   /\ first = 1 => Contains(fn_out.r.question, "I found these sectors: ")
                   /\ first = 2 => fn_out.r.question = QuarterQuestion
                   /\ first = 3 => fn_out.r.question = VagueQuestion
            /\ (TokenCount(q) < 4 /\ ContainsAny(Lower(q), vague_words)) => fn_out.r.needs

\* a query that satisfies both the time rule and the vague rule gets the
\* quarter question
C6_Witness ==
    /\ fn_out.op = "gate"
    /\ ~SectorRuleFires(fn_in.query, fn_in.work)
    /\ TimeRuleFires(fn_in.query)
    /\ VagueRuleFires(fn_in.query)
    /\ fn_out.r.question = QuarterQuestion

\* C7 (as claimed): whenever a known sector name of the work table occurs in
\* the query, rule 1 does not fire.
C7_NamedSectorSilencesRule1 ==
    (fn_out.op = "gate" /\ HasCol(fn_in.work, "sector")) =>
        LET known == Unique(Column(fn_in.work, "sector"))
        IN  (\E i \in 1..Len(known) :
                 known[i] # "" /\ Contains(Lower(fn_in.query), Lower(known[i])))
            => ~Contains(Fmt(fn_out.r.question), "I found these sectors: ")

\* C8: health_score is win_rate*0.4 + min(realization_rate,100)*0.6 when
\* there are deals and 0 otherwise, then min(health,100); won=3, lost=1,
\* pipeline=1000, revenue=600 gives 66.
C8_HealthFormula ==
    fn_out.op = "metrics" =>
        LET m == fn_out.r
            wr == IF m.won_deals + m.lost_deals > 0
                  THEN Rat(100 * m.won_deals, m.won_deals + m.lost_deals) ELSE RatInt(0)
            rr == IF m.total_pipeline > 0
                  THEN Rat(100 * m.total_revenue, m.total_pipeline) ELSE RatInt(0)
            rrClamped == IF RatLe(rr, RatInt(100)) THEN rr ELSE RatInt(100)
            weighted == Rat(4 * wr.n * rrClamped.d + 6 * rrClamped.n * wr.d,
                            10 * wr.d * rrClamped.d)
            expected == IF m.total_deals > 0
                        THEN (IF RatLe(weighted, RatInt(100)) THEN weighted ELSE RatInt(100))
                        ELSE RatInt(0)
        IN  /\ m.health_score = expected
            /\ (m.won_deals = 3 /\ m.lost_deals = 1 /\ m.total_pipeline = 1000
                    /\ m.total_revenue = 600) => m.health_score = RatInt(66)

\* the worked example, and a realization rate above 100 that is clamped
C8_Witness ==
    /\ fn_out.op = "metrics"
    /\ fn_out.r.won_deals = 3 /\ fn_out.r.lost_deals = 1
    /\ fn_out.r.total_pipeline = 1000 /\ fn_out.r.total_revenue = 600
    /\ fn_out.r.health_score = RatInt(66)

\* C9 (as claimed): the health score lies between 0 and 100 inclusive.
C9_HealthInRange ==
    fn_out.op = "metrics" =>
        /\ RatLe(RatInt(0), fn_out.r.health_score)
        /\ RatLe(fn_out.r.health_score, RatInt(100))

\* C10 (as claimed): each rate is its quotient times 100, replaced by 0 when
\* its denominator is 0.
C10_RatesZeroDenominator ==
    fn_out.op = "metrics" =>
        LET m == fn_out.r
        IN  /\ m.win_rate = (IF m.won_deals + m.lost_deals # 0
                             THEN Rat(100 * m.won_deals, m.won_deals + m.lost_deals)
                             ELSE RatInt(0))
            /\ m.conversion_rate = (IF m.total_deals # 0
                                    THEN Rat(100 * m.won_deals, m.total_deals)
                                    ELSE RatInt(0))
            /\ m.realization_rate = (IF m.total_pipeline # 0
                                     THEN Rat(100 * m.total_revenue, m.total_pipeline)
                                     ELSE RatInt(0))

\* C10 (amended): each rate is its quotient times 100, replaced by 0 when its
\* denominator is 0 or negative; with zero deals win_rate, conversion_rate
\* and health_score are all 0.
C10_RatesNonPositiveDenominator ==
    fn_out.op = "metrics" =>
        LET m == fn_out.r
        IN  /\ m.win_rate = (IF m.won_deals + m.lost_deals > 0
                             THEN Rat(100 * m.won_deals, m.won_deals + m.lost_deals)
                             ELSE RatInt(0))
            /\ m.conversion_rate = (IF m.total_deals > 0
                                    THEN Rat(100 * m.won_deals, m.total_deals)
                                    ELSE RatInt(0))
            /\ m.realization_rate = (IF m.total_pipeline > 0
                                     THEN Rat(100 * m.total_revenue, m.total_pipeline)
                                     ELSE RatInt(0))
            /\ m.total_deals = 0 =>
                   /\ m.win_rate = RatInt(0)
                   /\ m.conversion_rate = RatInt(0)
                   /\ m.health_score = RatInt(0)

\* metrics of tables whose pipeline total is negative while revenue is not 0
C10_Witness ==
    /\ fn_out.op = "metrics"
    /\ fn_out.r.total_pipeline < 0
    /\ fn_out.r.total_revenue # 0
    /\ fn_out.r.realization_rate = RatInt(0)

\* C11 (as claimed): for every deals table won_deals is the number of records
\* whose status is exactly 'Won', 'won' or 'Closed Won', lost_deals the number
\* whose status is exactly 'Lost', 'lost' or 'Closed Lost', and all the
\* remaining records are active: won + lost + active = total_deals.
C11_StatusPartition ==
    fn_out.op = "metrics" =>
        LET deals == clean_dataframe(fn_in.deals)
            m == fn_out.r
            status(i) == IF HasCol(deals, deal_status_col)
                         THEN Column(deals, deal_status_col)[i] ELSE None
            records == 1..Len(deals.rows)
            won == {i \in records : status(i) \in {"Won", "won", "Closed Won"}}
            lost == {i \in records : status(i) \in {"Lost", "lost", "Closed Lost"}}
        IN  /\ m.total_deals = Len(deals.rows)
            /\ m.won_deals = Cardinality(won)
            /\ m.lost_deals = Cardinality(lost)
            /\ m.active_deals = Cardinality(records \ (won \cup lost))
            /\ m.won_deals + m.lost_deals + m.active_deals = m.total_deals

\* C12 (as claimed): analyze_collections yields collection_rate =
\* collected/billed*100, 0 when billed is 0 or the collected column is absent,
\* and receivables = the sum of the receivable column whenever that column is
\* present, billed - collected only when it is absent; billed=1000,
\* collected=900 without a receivable column gives receivables 100, rate 90.
C12_CollectionFormulas ==
    fn_out.op = "collections" =>
        LET w == clean_dataframe(fn_in.work)
            a == fn_out.r
            total(col) == IF HasCol(w, col) THEN SeqSum(safe_numeric(Column(w, col))) ELSE 0
            billed == total(billed_col)
            collected == total(collected_col)
        IN  /\ "collection_rate" \in DOMAIN a
            /\ a.collection_rate =
                   (IF billed = 0 \/ ~HasCol(w, collected_col) THEN RatInt(0)
                    ELSE Rat(100 * collected, billed))
            /\ "receivables" \in DOMAIN a
            /\ a.receivables =
                   (IF HasCol(w, receivable_col) THEN total(receivable_col)
                    ELSE billed - collected)
            /\ (billed = 1000 /\ collected = 900 /\ ~HasCol(w, receivable_col)) =>
                   (a.receivables = 100 /\ a.collection_rate = RatInt(90))

\* C13 (as claimed): a missing column degrades only the metric derived from
\* it: every total whose own column is present is still reported; in
\* particular, without the billed column but with the collected and the
\* receivable column, analyze_collections reports total_collected and
\* receivables from those columns.
C13_MissingColumnIsLocal ==
    fn_out.op = "collections" =>
        LET w == clean_dataframe(fn_in.work)
            a == fn_out.r
            reported(key, col) ==
                HasCol(w, col) =>
                    /\ key \in DOMAIN a
                    /\ a[key] = SeqSum(safe_numeric(Column(w, col)))
        IN  /\ reported("total_billed", billed_col)
            /\ reported("total_collected", collected_col)
            /\ reported("receivables", receivable_col)

\* C14: sector_analysis returns its groups in descending order of summed
\* revenue, and the returned sequence is the same for every reordering of
\* the input rows, also when several sectors have equal summed revenue.
C14_SortedAndOrderIndependent ==
    (fn_out.op = "sectors" /\ ~fn_out.r.is_none) =>
        LET groups == fn_out.r.rows
            w == fn_in.work
            n == Len(w.rows)
            perms == {p \in [1..n -> 1..n] : \A i, j \in 1..n : p[i] = p[j] => i = j}
            reordered(p) == [w EXCEPT !.rows = [i \in 1..n |-> w.rows[p[i]]]]
        IN  /\ \A i \in 1..(Len(groups) - 1) : groups[i].revenue >= groups[i + 1].revenue
            /\ \A p \in perms :
                   sector_analysis(clean_dataframe(reordered(p)), revenue_col) = fn_out.r

\* two sectors with equal summed revenue, the first input row belonging to
\* the sector that is returned second
C14_Witness ==
    /\ fn_out.op = "sectors"
    /\ Len(fn_out.r.rows) >= 2
    /\ fn_out.r.rows[1].revenue = fn_out.r.rows[2].revenue
    /\ fn_out.r.rows[1].deal_count # fn_out.r.rows[2].deal_count
    /\ fn_in.work.rows[1][1] = fn_out.r.rows[2].sector

\* C15 (as claimed): for every work table with the sector and the revenue
\* column the deal_count values of the returned groups sum to the number of
\* input rows, rows with a missing sector cell included.
C15_CountsCoverAllRows ==
    (fn_out.op = "sectors" /\ ~fn_out.r.is_none) =>
        SeqSum([i \in 1..Len(fn_out.r.rows) |-> fn_out.r.rows[i].deal_count])
            = Len(fn_in.work.rows)

\* C16: extract_keywords returns exactly the categories, out of the 8 fixed
\* ones, that have a keyword occurring as a substring of the lower-cased
\* query: case-insensitive, not word-bounded ('unconverted' yields
\* conversion), each category decided on its own ("sector revenue breakdown"
\* yields sector and revenue), and no category twice.
C16_ExactlyTheMatchingCategories ==
    fn_out.op = "classify" =>
        LET detected == fn_out.r
            q == Lower(fn_in.query)
            all == {Categories[i] : i \in 1..Len(Categories)}
            matching == {c \in all : \E j \in 1..Len(keywords[c]) : Contains(q, keywords[c][j])}
        IN  /\ Cardinality(all) = 8
            /\ {detected[i] : i \in 1..Len(detected)} = matching
            /\ \A i, j \in 1..Len(detected) : detected[i] = detected[j] => i = j
            /\ q = "unconverted" => detected = <<"conversion">>
            /\ q = "sector revenue breakdown" =>
                   {detected[i] : i \in 1..Len(detected)} = {"sector", "revenue"}

\* a query in mixed case with a keyword inside a longer word and keywords of
\* two more categories
C16_Witness ==
    /\ fn_out.op = "classify"
    /\ fn_in.query = "Unconverted Sector Revenue"
    /\ fn_out.r = <<"conversion", "revenue", "sector">>

\* C17 (as claimed): for every currency cell made of an optional currency
\* symbol (rupee sign or $), digits and thousands separators, cleaning yields
\* the numeric value of the digits (the rupee sign before 1,250,000 gives
\* 1250000); for every unparseable cell such as "N/A" it yields 0.
C17_CurrencyCellValue ==
    fn_out.op \in {"safe_numeric", "convert_currency"} =>
        LET cell == fn_in.work.rows[1][1]
            value == fn_out.r[1]
            body == IF cell # None /\ Len(cell) > 0 /\ SubSeq(cell, 1, 1) \in {RupeeSign, "$"}
                    THEN SubSeq(cell, 2, Len(cell)) ELSE cell
            digits == RemoveChars(body, ",")
        IN  /\ (cell # None /\ AllDigits(digits)) => value = DigitsValue(digits)
            /\ cell = RupeeSign \o "1,250,000" => value = 1250000
            /\ cell = "N/A" => value = 0

\* C18 (as claimed): for every input table, a table with column headers and
\* zero rows included, the cleaner returns a table whose column names are all
\* lower-cased and trimmed of surrounding whitespace.
C18_HeadersNormalised ==
    fn_out.op \in {"clean_dataframe", "clean_columns"} =>
        /\ Len(fn_out.r.cols) = Len(fn_in.work.cols)
        /\ \A j \in 1..Len(fn_out.r.cols) :
               /\ fn_out.r.cols[j] = Lower(Strip(fn_in.work.cols[j]))
               /\ fn_out.r.cols[j] = Lower(fn_out.r.cols[j])
               /\ fn_out.r.cols[j] = Strip(fn_out.r.cols[j])

\* C19 (as claimed): after clean_work_orders every cell of every configured
\* currency column holds a number greater than or equal to 0, whatever text
\* the cell held before, text that parses to a negative number included.
C19_CurrencyCellsNonNegative ==
    fn_out.op = "clean_work_orders" =>
        LET t == fn_out.r
        IN  \A j \in 1..Len(t.cols) :
                InList(t.cols[j], currency_cols) =>
                    \A i \in 1..Len(t.rows) : t.rows[i][j] >= 0

\* C20: the leadership report labels health 'Healthy' when score > 70,
\* 'Needs Attention' when 40 < score <= 70 and 'Critical' when score <= 40,
\* and the status of the returned metadata is the label of the banner.
C20_HealthLabel ==
    fn_out.op = "report" =>
        LET score == fn_out.r.metadata.health_score
            banner == fn_out.r.report.banner
            above(k) == score.n > k * score.d
        IN  /\ above(70) => banner.status = "Healthy"
            /\ (above(40) /\ ~above(70)) => banner.status = "Needs Attention"
            /\ ~above(40) => banner.status = "Critical"
            /\ fn_out.r.metadata.status = banner.status

\* a report for a score of exactly 70
C20_Witness ==
    /\ fn_out.op = "report"
    /\ fn_out.r.metadata.health_score = RatInt(70)
    /\ fn_out.r.report.banner.status = "Needs Attention"
    /\ fn_out.r.metadata.status = "Needs Attention"

\* C21: the report history is append-only, most recent last: a report
\* generation on non-empty tables adds exactly one entry at the end, no step
\* (data refresh included) changes, reorders or removes an entry, the report
\* shown expanded is the last entry and the browsable list is exactly the
\* last 5 entries.
C21_HistoryAppendOnly ==
    /\ [][\/ leadership_reports' = leadership_reports
          \/ /\ Len(leadership_reports') = Len(leadership_reports) + 1
             /\ SubSeq(leadership_reports', 1, Len(leadership_reports)) = leadership_reports
             /\ ~IsEmpty(work_df) /\ ~IsEmpty(deals_df)]_vars
    /\ [][(Refresh \/ turn' # turn) => leadership_reports' = leadership_reports]_vars
    /\ [](LET n == Len(leadership_reports)
               listed == PreviousReports(leadership_reports)
           IN  /\ n > 0 => LatestReport(leadership_reports) = leadership_reports[n]
               /\ Len(listed) = (IF n < 5 THEN n ELSE 5)
               /\ \A i \in 1..Len(listed) :
                      /\ listed[i].number = n - i + 1
                      /\ listed[i].entry = leadership_reports[n - i + 1])

\* six reports, the first from other data than the last, after a refresh
C21_Witness ==
    /\ Len(leadership_reports) = 6
    /\ leadership_reports[1] # leadership_reports[6]
    /\ last.path = "refresh"

\* C22 (as claimed): an error raised while composing a response is caught on
\* both entry paths (typed chat input and sample-question click): the turn
\* ends with a visible assistant error message and the error never escapes
\* the turn.
C22_ErrorsCaught ==
    last.outcome \in {"error", "crashed"} =>
        /\ last.outcome = "error"
        /\ Len(messages) > 0
        /\ messages[Len(messages)] = AssistantMsg("error")

\* C23 (as claimed): for every query whose categories contain revenue and
\* none of conversion, collection and sector, and for every pair of tables,
\* the composer enters the revenue branch and returns the revenue narrative
\* without raising.
C23_RevenueNarrative ==
    (/\ fn_out.op = "compose"
     /\ InList("revenue", fn_out.r.intents)
     /\ ~InList("conversion", fn_out.r.intents)
     /\ ~InList("collection", fn_out.r.intents)
     /\ ~InList("sector", fn_out.r.intents))
        => /\ fn_out.r.branch = "revenue"
           /\ fn_out.r.kind = "narrative"

\* C24: the refresh button resets the conversation context to its initial
\* state: no clarification is awaited, no deferred query and no asked-about
\* query string are stored, the message list is empty, and the cached tables
\* are cleared, so the tables the session holds afterwards were fetched at
\* the time of the refresh.
C24_RefreshResets ==
    [][Refresh =>
          /\ context' = InitialContext
          /\ ~context'.clarification_needed
          /\ context'.pending_clarified_query \in {None, Absent}
          /\ context'.clarification_asked_for \in {None, Absent}
          /\ context'.pending_query = None
          /\ messages' = <<>>
          /\ load_cache'.valid
          /\ load_cache'.at = now'
          /\ work_df' = load_cache'.work
          /\ deals_df' = load_cache'.deals]_vars

\* a refresh after a turn, at a time when the entry fetched at the start of
\* the session was still valid
C24_Witness ==
    /\ last.path = "refresh"
    /\ turn > 0
    /\ now = 150
    /\ load_cache.at = 150
    /\ messages = <<>>

\* C25 (as claimed): the cached tables expire by time: a turn handled when
\* the expiry interval has elapsed since the tables were fetched works on
\* tables fetched on that turn, without a refresh.
C25_TablesExpire ==
    [][(turn' # turn /\ load_cache.valid /\ now - load_cache.at >= ttl)
          => /\ load_cache'.valid
             /\ load_cache'.at = now'
             /\ work_df' = load_cache'.work
             /\ deals_df' = load_cache'.deals]_vars

\* C26 (as claimed): when the sector branch is entered and the sector
\* breakdown is non-empty, the composer returns the sector narrative for
\* every distribution of revenue over the sectors, a total of 0 included;
\* it does not raise.
C26_SectorNarrative ==
    (/\ fn_out.op = "compose"
     /\ fn_out.r.branch = "sector"
     /\ LET sector_data == sector_analysis(clean_dataframe(fn_in.work), revenue_col)
        IN  ~sector_data.is_none /\ Len(sector_data.rows) > 0)
        => fn_out.r.kind = "narrative"

\* C27 (as claimed): after every turn, from typed chat input or from a
\* sample-question click, composed or failed, the message history is a
\* sequence of user/assistant pairs: every user message is immediately
\* followed by exactly one assistant message.
C27_MessagePairs ==
    /\ Len(messages) % 2 = 0
    /\ \A i \in 1..Len(messages) :
           messages[i].role = (IF i % 2 = 1 THEN "user" ELSE "assistant")

\* C28 (as claimed): duplicate suppression reaches only the immediately
\* following turn: a chat query that satisfies a clarification rule and
\* arrives while no clarification is awaited receives a clarifying question,
\* unless the turn just before it asked a clarifying question about that
\* same query string.
C28_SuppressionOnlyNextTurn ==
    [][(/\ turn' # turn
        /\ last'.path = "chat"
        /\ ~context.clarification_needed
        /\ check_for_clarification(last'.processed, work_df, deals_df).needs
        /\ ~(last.outcome = "clarification" /\ last.processed = last'.processed))
          => last'.outcome = "clarification"]_vars

\* C29 (as claimed): a sample question handled while a clarification is
\* awaited is answered by the composer on that turn, also when it satisfies
\* a clarification rule; it is not combined with the deferred query; and
\* afterwards no clarification is awaited, so the next typed input is
\* handled as a fresh query.
C29_SampleWhileAwaiting ==
    [][/\ (PendingQuery /\ context.clarification_needed)
            => /\ last'.outcome = "response"
               /\ last'.processed = context.pending_query
               /\ ~context'.clarification_needed
       /\ (/\ last.path = "sample" /\ last.awaiting
           /\ turn' # turn /\ last'.path = "chat")
            => last'.processed = last'.raw]_vars

\* C30 (as claimed): the gate and the composer see the same sector column:
\* for every work table and every sector-related query, if the table as the
\* composer cleans it has a 'sector' column with at least one value and the
\* query names none of these values, the sector rule of the gate fires,
\* whatever the capitalisation or padding of the label in the fetched table.
C30_GateSeesCleanedSector ==
    (/\ fn_out.op = "gate"
     /\ SectorRelated(fn_in.query)
     /\ HasCol(clean_dataframe(fn_in.work), "sector")
     /\ LET values == Unique(Column(clean_dataframe(fn_in.work), "sector"))
        IN  /\ Len(values) > 0
            /\ Falsy(SectorMentioned(values, Lower(fn_in.query))))
        => /\ fn_out.r.needs
           /\ fn_out.r.question =
                  SectorQuestion(Unique(Column(clean_dataframe(fn_in.work), "sector")))
====
